---- MODULE Spec2Model ----
(***************************************************************************)
(* Transaction lifecycle of the SwiftBase backend:                         *)
(*   routes/transactions.js  POST /create, processTransaction,             *)
(*                           POST /:id/cancel                              *)
(*   services/exchangeRate   getRate / getMockRate (rate cache)            *)
(*   services/payment, xrpl  the adapters the pipeline awaits              *)
(*   database/init.sql       the transactions table                        *)
(*                                                                         *)
(* Units: money in cents, rates in 1/10000, time in milliseconds.          *)
(* A nullable column or an optional JSON field is <<>> (NULL / undefined)  *)
(* or <<v>>.                                                               *)
(***************************************************************************)
EXTENDS Integers, Sequences, FiniteSets, TLC

\* ------------------------------------------------------------------ bounds
MaxCreate == 1
MaxCancel == 2
MaxStaged == 1
MaxClock == 2
MaxCalls == 1
MaxBatch == 2

\* ------------------------------------------------------- program constants
MinAmount == 1000
MaxAmount == 1000000
cacheExpiry == 60000
TickMs == 30000
EstimateMs == 600000
XrpPrice == 25

Null == <<>>
Some(v) == <<v>>
Val(x) == x[1]

\* ------------------------------------------------------------ environment
Users == {1, 2}

\* recipients and payment_methods rows (id -> user_id); id 3 is in neither table
RecipientOwner == (1 :> 1) @@ (2 :> 2)
RecipientPayoutType == (1 :> "bank") @@ (2 :> "cash_pickup")
PaymentMethodOwner == (1 :> 1) @@ (2 :> 2)

Pairs == {<<"USD", "MXN">>, <<"MXN", "USD">>}
UpstreamRates == {180000}

CreateSlots == 1..MaxCreate
RowIds == 1..(MaxStaged + MaxCreate)
CancelSlots == 1..MaxCancel

\* ------------------------------------------------------------- arithmetic
\* floor(x * y / d) without forming x * y
MulDiv(x, y, d) == (x \div d) * y + ((x % d) * y) \div d

Max(S) == CHOOSE x \in S : \A y \in S : y <= x

\* JS truthiness of an optional JSON field
FalsyNum(f) == f = Null \/ f = Some(0)
FalsyStr(f) == f = Null \/ f = Some("")

VARIABLES
  transactions,   \* the transactions table, row id = index
  creates,        \* POST /create handlers
  pipelines,      \* processTransaction tasks, by transaction id
  cancels,        \* POST /:id/cancel handlers
  cache,          \* ExchangeRateService.cache
  now,            \* the clock behind Date.now() and NOW()
  calls,          \* getRate calls of the rate routes, in the order they started
  fetches,        \* the requests sent to the upstream rate API, in order
  batch,          \* a getBatchRates call and the Promise.all behind it
  compare,        \* a POST /compare-routes request and its response
  query           \* a GET /:id/status request and its response

vars ==
  <<transactions, creates, pipelines, cancels, cache, now, calls, fetches, batch,
    compare, query>>

\* what the create, pipeline and cancel steps never touch
rateVars == <<calls, fetches, batch, compare, query>>

TxIds == 1..Len(transactions)

\* ------------------------------------------------------------------ rows
\* a row staged in status 'pending' by a writer outside these routes
StagedRow ==
  [sender_id |-> 1, recipient_id |-> 1, payment_method_id |-> 1,
   amount_sent |-> MinAmount, currency_sent |-> "USD", currency_received |-> "MXN",
   exchange_rate |-> Some(174475), fee |-> Some(10), status |-> "pending",
   route_type |-> Some("xrpl_direct"), notes |-> Null,
   amount_received |-> Null, xrpl_tx_hash |-> Null,
   created_at |-> 0, completed_at |-> Null]

IdleCreate ==
  [pc |-> "idle", user |-> 0, body |-> Null, rateData |-> Null,
   transactionId |-> 0, response |-> Null]

IdleCancel ==
  [pc |-> "idle", user |-> 0, id |-> 0, status |-> Null, response |-> Null]

\* a transaction with no processTransaction task (never started); amount,
\* exchangeRate and amountReceived are the task's arguments, targetAmount is
\* xrplResult.targetAmount, payoutAmount the amount handed to processPayout
NoPipeline ==
  [pc |-> "none", invoked |-> <<>>, succeeded |-> <<>>, error |-> Null,
   xrplTxHash |-> Null, amount |-> 0, exchangeRate |-> 0, amountReceived |-> 0,
   targetAmount |-> Null, payoutAmount |-> Null, writes |-> 0]

\* no getBatchRates call made yet
IdleBatch == [pc |-> "idle", pairs |-> <<>>, values |-> <<>>, results |-> Null]

\* no compare-routes request received yet
IdleCompare == [pc |-> "idle", body |-> Null, rate |-> Null, response |-> Null]

\* no status request received yet
IdleQuery == [pc |-> "idle", user |-> 0, id |-> 0, response |-> Null]

Init ==
  /\ \E n \in 0..MaxStaged : transactions = [i \in 1..n |-> StagedRow]
  /\ creates = [s \in CreateSlots |-> IdleCreate]
  /\ pipelines = [i \in DOMAIN transactions |-> NoPipeline]
  /\ cancels = [c \in CancelSlots |-> IdleCancel]
  /\ cache = [p \in Pairs |-> Null]
  /\ now = 0
  /\ calls = <<>>
  /\ fetches = <<>>
  /\ batch = IdleBatch
  /\ compare = IdleCompare
  /\ query = IdleQuery

\* ------------------------------------------------------- exchange rate
mockRates == (<<"USD", "MXN">> :> 175000)
DefaultMockRate == 10000

CacheKey(from, to) == <<from, to>>

\* CacheHit with an entry aged exactly cacheExpiry still served
CacheHitInclusive(from, to) ==
  /\ cache[CacheKey(from, to)] # Null
  /\ now - Val(cache[CacheKey(from, to)]).timestamp <= cacheExpiry

\* getRate, the cache test
CacheHit(from, to) ==
  /\ cache[CacheKey(from, to)] # Null
  /\ now - Val(cache[CacheKey(from, to)]).timestamp < cacheExpiry

\* getRate, the result built from a successful upstream response
UpstreamResult(from, to, rate) ==
  [rate |-> rate, timestamp |-> now, from |-> from, to |-> to, mock |-> FALSE]

getMockRate(from, to) ==
  [rate |-> IF CacheKey(from, to) \in DOMAIN mockRates
              THEN mockRates[CacheKey(from, to)] ELSE DefaultMockRate,
   timestamp |-> now, from |-> from, to |-> to, mock |-> TRUE]

\* ------------------------------------------------------------ POST /create
Response(code, error) ==
  [code |-> code, error |-> error, transactionId |-> 0, status |-> Null,
   estimatedCompletion |-> Null]

MissingFields == Response(400, "Missing required fields")
AmountOutOfRange == Response(400, "Amount must be between $10 and $10,000")
RecipientNotFound == Response(404, "Recipient not found or does not belong to you")
PaymentMethodNotFound ==
  Response(404, "Payment method not found or does not belong to you")
CreateFailed == Response(500, "Failed to create transaction")
Accepted == Response(200, "")

Initiated(id) ==
  [code |-> 200, error |-> "", transactionId |-> id, status |-> Some("processing"),
   estimatedCompletion |-> Some(now + EstimateMs)]

\* the four guards of the handler, as the code tests them
MissingCheck(body) ==
  \/ FalsyNum(body.recipientId) \/ FalsyNum(body.paymentMethodId)
  \/ FalsyNum(body.amount) \/ FalsyStr(body.fromCurrency)
  \/ FalsyStr(body.toCurrency) \/ FalsyStr(body.routeType)

AmountCheck(body) ==
  Val(body.amount) < MinAmount \/ Val(body.amount) > MaxAmount

\* RecipientRows without the user_id condition
RecipientRowsAnyOwner(id, user) ==
  IF id \in DOMAIN RecipientOwner THEN {id} ELSE {}

\* SELECT id FROM recipients WHERE id = $1 AND user_id = $2
RecipientRows(id, user) ==
  IF id \in DOMAIN RecipientOwner /\ RecipientOwner[id] = user THEN {id} ELSE {}

\* SELECT id FROM payment_methods WHERE id = $1 AND user_id = $2
PaymentMethodRows(id, user) ==
  IF id \in DOMAIN PaymentMethodOwner /\ PaymentMethodOwner[id] = user
    THEN {id} ELSE {}

\* Validate with the ownership guards moved in front of the amount guard
ValidateOwnershipFirst(user, body, q1, q2) ==
  IF MissingCheck(body) THEN MissingFields
  ELSE IF ~q1 THEN CreateFailed
  ELSE IF RecipientRows(Val(body.recipientId), user) = {} THEN RecipientNotFound
  ELSE IF ~q2 THEN CreateFailed
  ELSE IF PaymentMethodRows(Val(body.paymentMethodId), user) = {}
    THEN PaymentMethodNotFound
  ELSE IF AmountCheck(body) THEN AmountOutOfRange
  ELSE Accepted

\* the outcome of the validation block; q1, q2: whether the two SELECTs resolve
Validate(user, body, q1, q2) ==
  IF MissingCheck(body) THEN MissingFields
  ELSE IF AmountCheck(body) THEN AmountOutOfRange
  ELSE IF ~q1 THEN CreateFailed
  ELSE IF RecipientRows(Val(body.recipientId), user) = {} THEN RecipientNotFound
  ELSE IF ~q2 THEN CreateFailed
  ELSE IF PaymentMethodRows(Val(body.paymentMethodId), user) = {}
    THEN PaymentMethodNotFound
  ELSE Accepted

FirstIdle(slots, s) ==
  /\ slots[s].pc = "idle"
  /\ \A t \in DOMAIN slots : t < s => slots[t].pc # "idle"

\* CreateValidate with the handler running on after it sent an error
CreateValidateNoReturn(s, user, body, q1, q2) ==
  /\ FirstIdle(creates, s)
  /\ LET v == Validate(user, body, q1, q2) IN
       creates' = [creates EXCEPT ![s] =
         IF v \in {Accepted, PaymentMethodNotFound}
           THEN [@ EXCEPT !.pc = "rate", !.user = user, !.body = Some(body),
                          !.response = IF v = Accepted THEN Null ELSE Some(v)]
           ELSE [@ EXCEPT !.pc = "done", !.user = user, !.body = Some(body),
                          !.response = Some(v)]]
  /\ UNCHANGED <<transactions, pipelines, cancels, cache, now, rateVars>>

\* request received, validated (lines 105-151)
CreateValidate(s, user, body, q1, q2) ==
  /\ FirstIdle(creates, s)
  /\ LET v == Validate(user, body, q1, q2) IN
       creates' = [creates EXCEPT ![s] =
         IF v = Accepted
           THEN [@ EXCEPT !.pc = "rate", !.user = user, !.body = Some(body)]
           ELSE [@ EXCEPT !.pc = "done", !.user = user, !.body = Some(body),
                          !.response = Some(v)]]
  /\ UNCHANGED <<transactions, pipelines, cancels, cache, now, rateVars>>

\* getRate up to its cache test (services/payment.js lines 136-143)
CreateGetRate(s) ==
  /\ creates[s].pc = "rate"
  /\ LET b == Val(creates[s].body)
         from == Val(b.fromCurrency)
         to == Val(b.toCurrency) IN
       creates' = [creates EXCEPT ![s] =
         IF CacheHit(from, to)
           THEN [@ EXCEPT !.pc = "insert",
                          !.rateData = Some(Val(cache[CacheKey(from, to)]).data)]
           ELSE [@ EXCEPT !.pc = "fetch"]]
  /\ UNCHANGED <<transactions, pipelines, cancels, cache, now, rateVars>>

\* getRate after the upstream request returned (services/payment.js lines 145-167)
CreateRateFetched(s, ok, rate) ==
  /\ creates[s].pc = "fetch"
  /\ LET b == Val(creates[s].body)
         from == Val(b.fromCurrency)
         to == Val(b.toCurrency)
         result == UpstreamResult(from, to, rate) IN
       IF ok
         THEN /\ cache' = [cache EXCEPT ![CacheKey(from, to)] =
                            Some([data |-> result, timestamp |-> now])]
              /\ creates' = [creates EXCEPT ![s] =
                              [@ EXCEPT !.pc = "insert", !.rateData = Some(result)]]
         ELSE /\ cache' = cache
              /\ creates' = [creates EXCEPT ![s] =
                              [@ EXCEPT !.pc = "insert",
                                        !.rateData = Some(getMockRate(from, to))]]
  /\ UNCHANGED <<transactions, pipelines, cancels, now, rateVars>>

\* the values computed between getRate and the INSERT (lines 155-159)
ExchangeRateOf(rateData) == MulDiv(rateData.rate, 997, 1000)
FeeOf(amount) == MulDiv(amount, 1, 100)
AmountReceivedOf(amount, rateData) ==
  MulDiv(amount - FeeOf(amount), ExchangeRateOf(rateData), 10000)

\* NewRow inserting the record as 'pending'
NewRowPending(user, body, rateData) ==
  [sender_id |-> user, recipient_id |-> Val(body.recipientId),
   payment_method_id |-> Val(body.paymentMethodId),
   amount_sent |-> Val(body.amount), currency_sent |-> Val(body.fromCurrency),
   currency_received |-> Val(body.toCurrency),
   exchange_rate |-> Some(ExchangeRateOf(rateData)),
   fee |-> Some(FeeOf(Val(body.amount))), status |-> "pending",
   route_type |-> body.routeType,
   notes |-> IF FalsyStr(body.notes) THEN Null ELSE body.notes,
   amount_received |-> Null, xrpl_tx_hash |-> Null,
   created_at |-> now, completed_at |-> Null]

\* INSERT INTO transactions ... VALUES (...) (lines 162-181)
NewRow(user, body, rateData) ==
  [sender_id |-> user, recipient_id |-> Val(body.recipientId),
   payment_method_id |-> Val(body.paymentMethodId),
   amount_sent |-> Val(body.amount), currency_sent |-> Val(body.fromCurrency),
   currency_received |-> Val(body.toCurrency),
   exchange_rate |-> Some(ExchangeRateOf(rateData)),
   fee |-> Some(FeeOf(Val(body.amount))), status |-> "processing",
   route_type |-> body.routeType,
   notes |-> IF FalsyStr(body.notes) THEN Null ELSE body.notes,
   amount_received |-> Null, xrpl_tx_hash |-> Null,
   created_at |-> now, completed_at |-> Null]

\* CreateNextPc with the pipeline started before the response is sent
CreateNextPcSpawnFirst(pc) ==
  CASE pc = "insert" -> "spawn"
    [] pc = "spawn" -> "respond"
    [] pc = "respond" -> "done"

\* the order of the handler's last three statements: INSERT, res.json,
\* processTransaction(...)
CreateNextPc(pc) ==
  CASE pc = "insert" -> "respond"
    [] pc = "respond" -> "spawn"
    [] pc = "spawn" -> "done"

\* the INSERT; ok: whether db.query resolves (lines 162-183, 206-211)
CreateInsert(s, ok) ==
  /\ creates[s].pc = "insert"
  /\ IF ok
       THEN /\ transactions' = Append(transactions,
                 NewRow(creates[s].user, Val(creates[s].body), Val(creates[s].rateData)))
            /\ pipelines' = Append(pipelines, NoPipeline)
            /\ creates' = [creates EXCEPT ![s] =
                 [@ EXCEPT !.pc = CreateNextPc("insert"),
                           !.transactionId = Len(transactions) + 1]]
       ELSE /\ creates' = [creates EXCEPT ![s] =
                 [@ EXCEPT !.pc = "done", !.response = Some(CreateFailed)]]
            /\ UNCHANGED <<transactions, pipelines>>
  /\ UNCHANGED <<cancels, cache, now, rateVars>>

\* res.json({transactionId, status: 'processing', ...}) (lines 185-191)
CreateRespond(s) ==
  /\ creates[s].pc = "respond"
  /\ creates' = [creates EXCEPT ![s] =
       [@ EXCEPT !.pc = CreateNextPc("respond"),
                 !.response = Some(Initiated(creates[s].transactionId))]]
  /\ UNCHANGED <<transactions, pipelines, cancels, cache, now, rateVars>>

\* processTransaction(...), not awaited: runs up to its first await, the call
\* of paymentService.processPayment (lines 193-204, 229-238)
CreateSpawn(s) ==
  /\ creates[s].pc = "spawn"
  /\ pipelines' = [pipelines EXCEPT ![creates[s].transactionId] =
       [@ EXCEPT !.pc = "capture", !.invoked = <<"capture">>,
                 !.amount = Val(Val(creates[s].body).amount),
                 !.exchangeRate = ExchangeRateOf(Val(creates[s].rateData)),
                 !.amountReceived =
                   AmountReceivedOf(Val(Val(creates[s].body).amount),
                                    Val(creates[s].rateData))]]
  /\ creates' = [creates EXCEPT ![s] = [@ EXCEPT !.pc = CreateNextPc("spawn")]]
  /\ UNCHANGED <<transactions, cancels, cache, now, rateVars>>

\* ------------------------------------------------------ processTransaction
StageOutcomes == {"success", "unsuccessful", "reject"}

\* CaptureAccepted without the test of paymentResult.success
CaptureAcceptedUnchecked(outcome) == outcome \in {"success", "unsuccessful"}

\* whether the pipeline goes on after processPayment returned (line 240)
CaptureAccepted(outcome) == outcome = "success"

\* Thrown with the failed pipeline started over instead of stopped
ThrownRetried(p, msg) ==
  [p EXCEPT !.pc = "capture", !.invoked = Append(@, "capture"),
            !.error = Some(msg)]

\* the catch block is entered with error.message = msg
Thrown(p, msg) == [p EXCEPT !.pc = "catch", !.error = Some(msg)]

\* a stage returned a result and the next one is invoked
Advance(p, stage, outcome, next) ==
  [p EXCEPT !.pc = next, !.invoked = Append(@, next),
            !.succeeded = IF outcome = "success" THEN Append(@, stage) ELSE @]

\* step 1: processPayment returned (lines 234-243)
PipelineCapture(id, outcome) ==
  /\ id \in TxIds
  /\ pipelines[id].pc = "capture"
  /\ pipelines' = [pipelines EXCEPT ![id] =
       IF outcome = "reject" THEN Thrown(@, "capture rejected")
       ELSE IF ~CaptureAccepted(outcome) THEN Thrown(@, "Payment processing failed")
       ELSE Advance(@, "capture", outcome, "settle")]
  /\ UNCHANGED <<transactions, creates, cancels, cache, now, rateVars>>

\* xrplService (services/payment.js lines 99-108); XRP amounts in 1/1000
convertToXRP(amount) == (amount * 100) \div XrpPrice
convertFromXRP(xrpAmount, exchangeRate) ==
  MulDiv((xrpAmount * XrpPrice) \div 100, exchangeRate, 10000)

\* processRemittance, the targetAmount of its result (lines 110-122)
TargetAmount(amount, exchangeRate) ==
  convertFromXRP(convertToXRP(amount), exchangeRate)

\* step 2: processRemittance returned (lines 247-255)
PipelineSettle(id, outcome) ==
  /\ id \in TxIds
  /\ pipelines[id].pc = "settle"
  /\ pipelines' = [pipelines EXCEPT ![id] =
       IF outcome = "reject" THEN Thrown(@, "settlement rejected")
       ELSE [Advance(@, "settle", outcome, "lookup")
               EXCEPT !.xrplTxHash = Some(<<"XRPL_", id>>),
                      !.targetAmount =
                        Some(TargetAmount(pipelines[id].amount,
                                          pipelines[id].exchangeRate))]]
  /\ UNCHANGED <<transactions, creates, cancels, cache, now, rateVars>>

\* step 3: SELECT * FROM recipients WHERE id = $1 returned (lines 258-262);
\* step 4 is invoked with rows[0]
PipelineLookup(id, ok) ==
  /\ id \in TxIds
  /\ pipelines[id].pc = "lookup"
  /\ pipelines' = [pipelines EXCEPT ![id] =
       IF ~ok THEN Thrown(@, "storage error")
       ELSE [Advance(@, "lookup", "success", "payout")
               EXCEPT !.payoutAmount = Some(pipelines[id].amountReceived)]]
  /\ UNCHANGED <<transactions, creates, cancels, cache, now, rateVars>>

\* step 4: processPayout returned (lines 266-271; payment.js 38-62 reads
\* recipientDetails.payout_type, a TypeError when there is no such row)
PipelinePayout(id, outcome) ==
  /\ id \in TxIds
  /\ pipelines[id].pc = "payout"
  /\ pipelines' = [pipelines EXCEPT ![id] =
       IF transactions[id].recipient_id \notin DOMAIN RecipientPayoutType
         THEN Thrown(@, "Cannot read properties of undefined")
       ELSE IF outcome = "reject" THEN Thrown(@, "payout rejected")
       ELSE Advance(@, "payout", outcome, "complete")]
  /\ UNCHANGED <<transactions, creates, cancels, cache, now, rateVars>>

\* CompletedUpdate with completed_at left out of the SET list
CompletedUpdateNoStamp(row, amountReceived, xrplTxHash) ==
  [row EXCEPT !.status = "completed", !.amount_received = Some(amountReceived),
              !.xrpl_tx_hash = xrplTxHash]

\* CompletedUpdate with the settlement reference left out of the SET list
CompletedUpdateNoHash(row, amountReceived, xrplTxHash) ==
  [row EXCEPT !.status = "completed", !.amount_received = Some(amountReceived),
              !.completed_at = Some(now)]

\* UPDATE transactions SET status = 'completed', ... (lines 274-282)
CompletedUpdate(row, amountReceived, xrplTxHash) ==
  [row EXCEPT !.status = "completed", !.amount_received = Some(amountReceived),
              !.xrpl_tx_hash = xrplTxHash, !.completed_at = Some(now)]

\* FailedUpdate with completed_at = NOW() added to the SET list
FailedUpdateStamped(row, message) ==
  [row EXCEPT !.status = "failed", !.notes = Some(<<"Error: ", message>>),
              !.completed_at = Some(now)]

\* UPDATE transactions SET status = 'failed', notes = `Error: ${message}`
\* (lines 290-296)
FailedUpdate(row, message) ==
  [row EXCEPT !.status = "failed", !.notes = Some(<<"Error: ", message>>)]

\* step 5: the 'completed' UPDATE; ok: whether db.query resolves
PipelineComplete(id, ok) ==
  /\ id \in TxIds
  /\ pipelines[id].pc = "complete"
  /\ IF ok
       THEN /\ transactions' = [transactions EXCEPT ![id] =
                 CompletedUpdate(@, pipelines[id].amountReceived,
                                 pipelines[id].xrplTxHash)]
            /\ pipelines' = [pipelines EXCEPT ![id] =
                 [@ EXCEPT !.pc = "done", !.writes = @ + 1]]
       ELSE /\ pipelines' = [pipelines EXCEPT ![id] = Thrown(@, "storage error")]
            /\ UNCHANGED transactions
  /\ UNCHANGED <<creates, cancels, cache, now, rateVars>>

\* the catch block: the 'failed' UPDATE; when it rejects too, the promise of
\* processTransaction rejects with nobody awaiting it (lines 286-297)
PipelineCatch(id, ok) ==
  /\ id \in TxIds
  /\ pipelines[id].pc = "catch"
  /\ IF ok
       THEN /\ transactions' = [transactions EXCEPT ![id] =
                 FailedUpdate(@, Val(pipelines[id].error))]
            /\ pipelines' = [pipelines EXCEPT ![id] =
                 [@ EXCEPT !.pc = "done", !.writes = @ + 1]]
       ELSE /\ pipelines' = [pipelines EXCEPT ![id] = [@ EXCEPT !.pc = "rejected"]]
            /\ UNCHANGED transactions
  /\ UNCHANGED <<creates, cancels, cache, now, rateVars>>

\* --------------------------------------------------------- POST /:id/cancel
CancelNotFound == Response(404, "Transaction not found")
CancelFailed == Response(500, "Failed to cancel transaction")
CannotCancel(status) ==
  [Response(400, "Cannot cancel transaction with status: ") EXCEPT
     !.status = Some(status)]
Cancelled(id) ==
  [Response(200, "Transaction cancelled successfully") EXCEPT !.transactionId = id]

\* SELECT id, status FROM transactions WHERE id = $1 AND sender_id = $2
OwnedRows(id, user) ==
  IF id \in TxIds /\ transactions[id].sender_id = user THEN {id} ELSE {}

\* Cancellable with no guard at all
CancellableAlways(status) == TRUE

\* Cancellable gating on every status the pipeline has not finished
CancellableUnfinished(status) == status \in {"pending", "processing"}

\* the guard in front of the UPDATE (line 550)
Cancellable(status) == status = "pending"

\* CancelUpdateRow refunding the fee in the same UPDATE
CancelUpdateRowFeeCleared(row) ==
  [row EXCEPT !.status = "failed", !.notes = Some(<<"Cancelled by user">>),
              !.fee = Null]

\* UPDATE transactions SET status = 'failed', notes = 'Cancelled by user'
\* WHERE id = $3 (lines 557-562)
CancelUpdateRow(row) ==
  [row EXCEPT !.status = "failed", !.notes = Some(<<"Cancelled by user">>)]

\* request received, the SELECT returned (lines 533-554)
CancelSelect(c, user, id, ok) ==
  /\ FirstIdle(cancels, c)
  /\ id \in 1..(Len(transactions) + 1)
  /\ cancels' = [cancels EXCEPT ![c] =
       IF ~ok
         THEN [@ EXCEPT !.pc = "done", !.user = user, !.id = id,
                        !.response = Some(CancelFailed)]
       ELSE IF OwnedRows(id, user) = {}
         THEN [@ EXCEPT !.pc = "done", !.user = user, !.id = id,
                        !.response = Some(CancelNotFound)]
       ELSE IF ~Cancellable(transactions[id].status)
         THEN [@ EXCEPT !.pc = "done", !.user = user, !.id = id,
                        !.status = Some(transactions[id].status),
                        !.response = Some(CannotCancel(transactions[id].status))]
       ELSE [@ EXCEPT !.pc = "update", !.user = user, !.id = id,
                      !.status = Some(transactions[id].status)]]
  /\ UNCHANGED <<transactions, creates, pipelines, cache, now, rateVars>>

\* the UPDATE returned (lines 556-575)
CancelUpdate(c, ok) ==
  /\ cancels[c].pc = "update"
  /\ IF ok
       THEN /\ transactions' = [transactions EXCEPT ![cancels[c].id] =
                 CancelUpdateRow(@)]
            /\ cancels' = [cancels EXCEPT ![c] =
                 [@ EXCEPT !.pc = "done", !.response = Some(Cancelled(cancels[c].id))]]
       ELSE /\ cancels' = [cancels EXCEPT ![c] =
                 [@ EXCEPT !.pc = "done", !.response = Some(CancelFailed)]]
            /\ UNCHANGED transactions
  /\ UNCHANGED <<creates, pipelines, cache, now, rateVars>>

\* ------------------------------------------------------------------ clock
Tick ==
  /\ now < MaxClock * TickMs
  /\ now' = now + TickMs
  /\ UNCHANGED <<transactions, creates, pipelines, cancels, cache, rateVars>>

\* ------------------------------------------------------------ requests
Body(recipientId, paymentMethodId, amount, notes) ==
  [recipientId |-> recipientId, paymentMethodId |-> paymentMethodId,
   amount |-> amount, fromCurrency |-> Some("USD"), toCurrency |-> Some("MXN"),
   routeType |-> Some("xrpl_direct"), notes |-> notes]

\* the requests of Spec: one that user 1 owns, one that user 2 owns, one that
\* no user passes
CreateBodies ==
  { Body(Some(1), Some(1), Some(MinAmount), Null),
    Body(Some(2), Some(2), Some(MaxAmount), Some("rent")),
    Body(Some(1), Some(2), Some(MinAmount - 1), Null) }

\* the requests of SpecValidation: every field absent, falsy or given, the
\* amounts on both sides of both limits, ids owned, foreign and unknown
AllBodies ==
  [recipientId : {Null, Some(1), Some(2), Some(3)},
   paymentMethodId : {Null, Some(1), Some(2)},
   amount : {Null, Some(0), Some(MinAmount - 1), Some(MinAmount),
             Some(MaxAmount), Some(MaxAmount + 1)},
   fromCurrency : {Null, Some(""), Some("USD")},
   toCurrency : {Null, Some("MXN")},
   routeType : {Null, Some("xrpl_direct")},
   notes : {Null}]

Next ==
  \/ \E s \in CreateSlots, u \in Users, b \in CreateBodies, q1, q2 \in BOOLEAN :
       CreateValidate(s, u, b, q1, q2)
  \/ \E s \in CreateSlots : CreateGetRate(s)
  \/ \E s \in CreateSlots, ok \in BOOLEAN, r \in UpstreamRates :
       CreateRateFetched(s, ok, r)
  \/ \E s \in CreateSlots, ok \in BOOLEAN : CreateInsert(s, ok)
  \/ \E s \in CreateSlots : CreateRespond(s)
  \/ \E s \in CreateSlots : CreateSpawn(s)
  \/ \E id \in RowIds, o \in StageOutcomes : PipelineCapture(id, o)
  \/ \E id \in RowIds, o \in StageOutcomes \ {"unsuccessful"} : PipelineSettle(id, o)
  \/ \E id \in RowIds, ok \in BOOLEAN : PipelineLookup(id, ok)
  \/ \E id \in RowIds, o \in StageOutcomes \ {"unsuccessful"} : PipelinePayout(id, o)
  \/ \E id \in RowIds, ok \in BOOLEAN : PipelineComplete(id, ok)
  \/ \E id \in RowIds, ok \in BOOLEAN : PipelineCatch(id, ok)
  \/ \E c \in CancelSlots, u \in Users, id \in RowIds \cup {Max(RowIds) + 1},
        ok \in BOOLEAN : CancelSelect(c, u, id, ok)
  \/ \E c \in CancelSlots, ok \in BOOLEAN : CancelUpdate(c, ok)
  \/ Tick

Spec == Init /\ [][Next]_vars

\* CreateValidate for the only request of the run
CreateValidateAlone(s, user, body, q1, q2) ==
  /\ \A t \in CreateSlots : creates[t].pc = "idle"
  /\ CreateValidate(s, user, body, q1, q2)

\* POST /create alone: one request, any of AllBodies, handled start to finish
NextValidation ==
  \/ \E s \in CreateSlots, u \in Users, b \in AllBodies, q1, q2 \in BOOLEAN :
       CreateValidateAlone(s, u, b, q1, q2)
  \/ \E s \in CreateSlots : CreateGetRate(s)
  \/ \E s \in CreateSlots, ok \in BOOLEAN, r \in UpstreamRates :
       CreateRateFetched(s, ok, r)
  \/ \E s \in CreateSlots, ok \in BOOLEAN : CreateInsert(s, ok)
  \/ \E s \in CreateSlots : CreateRespond(s)
  \/ \E s \in CreateSlots : CreateSpawn(s)

SpecValidation == Init /\ [][NextValidation]_vars

\* ===================================================== transaction claims
Row(id) == transactions[id]
Terminal(status) == status \in {"completed", "failed"}
Finished(id) == pipelines[id].pc \in {"done", "rejected"}

\* the request got past the four validation guards
PassedValidation(r) ==
  \/ r.pc \in {"rate", "fetch", "insert", "respond", "spawn"}
  \/ r.pc = "done" /\ r.rateData # Null

RespondedOk(r) == r.response # Null /\ Val(r.response).code = 200

\* ------------------------------------------------------------------- C1
C1_Handled ==
  \A s \in CreateSlots : LET r == creates[s] IN
    (r.pc = "done" /\ PassedValidation(r)) =>
      \/ r.response = Some(CreateFailed) /\ r.transactionId = 0
      \/ /\ r.transactionId \in TxIds
         /\ Row(r.transactionId).sender_id = r.user
         /\ RespondedOk(r)
         /\ Val(r.response).transactionId = r.transactionId
         /\ Val(r.response).status = Some("processing")
         /\ Val(r.response).estimatedCompletion # Null

C1_ResponseFirst ==
  \A id \in TxIds : pipelines[id].invoked # <<>> =>
    \E s \in CreateSlots :
      /\ creates[s].transactionId = id
      /\ RespondedOk(creates[s])
      /\ Val(creates[s].response).transactionId = id

C1_Step ==
  /\ \A s \in CreateSlots :
       /\ (creates[s].pc = "insert" /\ creates'[s].pc # "insert"
             /\ creates'[s].response # Some(CreateFailed)) =>
            /\ Len(transactions') = Len(transactions) + 1
            /\ creates'[s].transactionId = Len(transactions')
            /\ transactions'[Len(transactions')].status = "processing"
            /\ pipelines'[Len(transactions')].pc = "none"
       /\ (creates[s].response = Null /\ RespondedOk(creates'[s])) =>
            /\ pipelines[creates[s].transactionId].pc = "none"
            /\ pipelines'[creates[s].transactionId].pc = "none"
  /\ Len(transactions') # Len(transactions) =>
       /\ Len(transactions') = Len(transactions) + 1
       /\ \E s \in CreateSlots : creates[s].pc = "insert" /\ creates'[s].pc # "insert"

\* C1 (as amended): a create request that passes validation and whose INSERT
\* the storage accepts inserts exactly one record, in status 'processing', and
\* the caller is sent {transactionId, status 'processing', estimatedCompletion}
\* before the first pipeline stage of that transaction is invoked and while
\* its pipeline has not started; when the storage rejects the INSERT the caller
\* is sent 500, no record is inserted and no stage is ever invoked.
C1_Amended == [](C1_Handled /\ C1_ResponseFirst) /\ [][C1_Step]_vars

\* C1 (as stated): every create request that passes validation ends with one
\* inserted record and the 'processing' response.
C1_Original ==
  \A s \in CreateSlots : LET r == creates[s] IN
    (r.pc = "done" /\ PassedValidation(r)) =>
      r.transactionId \in TxIds /\ RespondedOk(r)

C1_Witness ==
  \E s \in CreateSlots :
    /\ creates[s].pc = "done" /\ RespondedOk(creates[s])
    /\ Finished(creates[s].transactionId)

\* ------------------------------------------------------------------- C2
\* C2: once a transaction's status is 'completed' or 'failed', no step of any
\* pipeline or cancel request changes its status or any other column.
C2_TerminalImmutable ==
  [][\A id \in TxIds : Terminal(Row(id).status) => transactions'[id] = Row(id)]_vars

\* a cancel request was answered for a completed transaction, and one wrote
\* its UPDATE to a transaction that another cancel had already failed
C2_Witness ==
  \/ \E c \in CancelSlots :
       /\ cancels[c].response = Some(CannotCancel("completed"))
       /\ Row(cancels[c].id).status = "completed"
  \/ \E c, d \in CancelSlots :
       /\ c # d /\ cancels[c].id = cancels[d].id
       /\ cancels[c].response = Some(Cancelled(cancels[c].id))
       /\ cancels[d].response = Some(Cancelled(cancels[d].id))

\* ------------------------------------------------------------------- C3
\* C3: in every state every transaction has amount_received and xrpl_tx_hash
\* non-null iff its status is 'completed', and status 'completed',
\* amount_received, xrpl_tx_hash and completed_at are set all together or not
\* at all.
C3_CompletionAtomic ==
  \A id \in TxIds : LET t == Row(id) IN
    /\ (t.amount_received # Null /\ t.xrpl_tx_hash # Null) <=> t.status = "completed"
    /\ (t.amount_received # Null) <=> (t.status = "completed")
    /\ (t.xrpl_tx_hash # Null) <=> (t.status = "completed")
    /\ (t.completed_at # Null) <=> (t.status = "completed")

C3_Witness ==
  \E id \in TxIds :
    /\ Row(id).status = "completed"
    /\ Row(id).amount_received = Some(pipelines[id].amountReceived)
    /\ Row(id).xrpl_tx_hash = pipelines[id].xrplTxHash

\* ------------------------------------------------------------------- C4
AdapterStages(log) == SelectSeq(log, LAMBDA x : x \in {"capture", "settle", "payout"})

\* C4: a transaction is 'completed' only if payment capture, then settlement,
\* then payout each succeeded for it, in that order, before the status write.
C4_CompletedOnlyAfterStages ==
  \A id \in TxIds :
    Row(id).status = "completed" =>
      AdapterStages(pipelines[id].succeeded) = <<"capture", "settle", "payout">>

C4_Witness ==
  \E id \in TxIds :
    /\ Row(id).status = "completed"
    /\ pipelines[id].pc = "done"
    /\ pipelines[id].invoked = <<"capture", "settle", "lookup", "payout", "complete">>

\* ------------------------------------------------------------------- C5
StageFailed(id) ==
  /\ pipelines[id].error # Null
  /\ pipelines[id].invoked[Len(pipelines[id].invoked)] # "complete"

\* C5: when capture, settlement, the recipient lookup or payout raised an
\* error, the pipeline ends with no further stage invoked, status 'failed',
\* notes holding the error's message, amount_received and xrpl_tx_hash null.
C5_StageErrorFails ==
  \A id \in TxIds :
    (StageFailed(id) /\ Finished(id)) =>
      /\ Len(pipelines[id].invoked) = Len(pipelines[id].succeeded) + 1
      /\ Row(id).status = "failed"
      /\ Row(id).notes = Some(<<"Error: ", Val(pipelines[id].error)>>)
      /\ Row(id).amount_received = Null
      /\ Row(id).xrpl_tx_hash = Null

\* ------------------------------------------------------------------- C6
\* C6: when the pipeline of a created transaction has ended (every adapter
\* and storage call having returned a result or an error), the transaction is
\* 'completed' or 'failed' and the pipeline wrote its record exactly once.
C6_OneTerminalWrite ==
  \A id \in TxIds :
    Finished(id) => Terminal(Row(id).status) /\ pipelines[id].writes = 1

\* ------------------------------------------------------------------- C7
C7_Answered ==
  \A c \in CancelSlots : LET r == cancels[c] IN
    r.pc = "done" =>
      /\ Val(r.response).code = 200 =>
           /\ r.response = Some(Cancelled(r.id))
           /\ r.status = Some("pending")
           /\ Row(r.id).sender_id = r.user
           /\ Row(r.id).status = "failed"
           /\ Row(r.id).notes = Some(<<"Cancelled by user">>)
      /\ Val(r.response).code = 400 =>
           /\ Val(r.status) \in {"processing", "completed", "failed"}
           /\ r.response = Some(CannotCancel(Val(r.status)))
      /\ (r.status # Null /\ Val(r.status) # "pending") =>
           r.response = Some(CannotCancel(Val(r.status)))

C7_Step ==
  \A c \in CancelSlots : LET r == cancels'[c] IN
    cancels[c] # r =>
      /\ r.pc = "update" =>
           Row(r.id).status = "pending" /\ Row(r.id).sender_id = r.user
      /\ (r.pc = "done" /\ Val(r.response).code = 400) =>
           /\ transactions' = transactions
           /\ Row(r.id).sender_id = r.user
           /\ r.status = Some(Row(r.id).status)
      /\ (r.pc = "done" /\ Val(r.response).code = 200) =>
           transactions'[r.id].status = "failed"

\* C7: a cancel request by the owner succeeds only if the handler found the
\* transaction in status 'pending', and then the status is 'failed'; for a
\* transaction it finds 'processing', 'completed' or 'failed' it answers 400
\* with that status and leaves the whole record unchanged.
C7_CancelContract == []C7_Answered /\ [][C7_Step]_vars

C7_Witness ==
  \E c, d \in CancelSlots :
    /\ cancels[c].response = Some(Cancelled(cancels[c].id))
    /\ cancels[d].response = Some(CannotCancel("processing"))

Answered(r) == r.pc = "done" /\ r.response # Some(CreateFailed)
Unanswered(r) == r.pc = "idle" \/ r.response = Some(CreateFailed)

RecipientUnowned(r) ==
  ~(\E id \in DOMAIN RecipientOwner :
      Some(id) = Val(r.body).recipientId /\ RecipientOwner[id] = r.user)
PaymentMethodUnowned(r) ==
  ~(\E id \in DOMAIN PaymentMethodOwner :
      Some(id) = Val(r.body).paymentMethodId /\ PaymentMethodOwner[id] = r.user)

\* the first guard a request trips, in the order missing fields, amount
\* range, recipient ownership, payment-method ownership
FirstViolated(r) ==
  IF MissingCheck(Val(r.body)) THEN Some(MissingFields)
  ELSE IF AmountCheck(Val(r.body)) THEN Some(AmountOutOfRange)
  ELSE IF RecipientUnowned(r) THEN Some(RecipientNotFound)
  ELSE IF PaymentMethodUnowned(r) THEN Some(PaymentMethodNotFound)
  ELSE Null

AllGiven(body) ==
  /\ body.recipientId # Null /\ body.paymentMethodId # Null /\ body.amount # Null
  /\ ~FalsyStr(body.fromCurrency) /\ ~FalsyStr(body.toCurrency)
  /\ ~FalsyStr(body.routeType)

\* C10: with every required field given and both ids owned by the caller, a
\* create request is rejected with AmountOutOfRange exactly when
\* amount < 10 or amount > 10000, and accepted otherwise.
C10_AmountRange ==
  \A s \in CreateSlots : LET r == creates[s] IN
    (/\ ~Unanswered(r) /\ AllGiven(Val(r.body))
     /\ ~RecipientUnowned(r) /\ ~PaymentMethodUnowned(r)) =>
      IF Val(Val(r.body).amount) < MinAmount \/ Val(Val(r.body).amount) > MaxAmount
        THEN r.response = Some(AmountOutOfRange)
        ELSE PassedValidation(r)

\* ------------------------------------------------------------------ C11
\* the request's recipient id is a row of recipients owned by someone else
RecipientForeign(r) ==
  \E id \in DOMAIN RecipientOwner :
    Some(id) = Val(r.body).recipientId /\ RecipientOwner[id] # r.user
PaymentMethodForeign(r) ==
  \E id \in DOMAIN PaymentMethodOwner :
    Some(id) = Val(r.body).paymentMethodId /\ PaymentMethodOwner[id] # r.user

\* an id that is in neither table
UnknownId == Max(DOMAIN RecipientOwner \cup DOMAIN PaymentMethodOwner) + 1

\* C11: a create request gets past validation only if its recipient and its
\* payment method are rows owned by the caller; a recipient owned by another
\* sender is answered RecipientNotFound, the very answer the same request
\* gets with an id that is in no table, and likewise PaymentMethodNotFound
\* for a payment method owned by another sender; so the recipient and the
\* payment method of every record that create inserted belong to its sender.
C11_OwnedOnly ==
  \A s \in CreateSlots : LET r == creates[s] IN
    ~Unanswered(r) =>
      /\ PassedValidation(r) => ~RecipientUnowned(r) /\ ~PaymentMethodUnowned(r)
      /\ (FirstViolated(r) = Some(RecipientNotFound) /\ RecipientForeign(r)) =>
           /\ r.response = Some(RecipientNotFound)
           /\ r.response =
                Some(Validate(r.user,
                       [Val(r.body) EXCEPT !.recipientId = Some(UnknownId)],
                       TRUE, TRUE))
      /\ (FirstViolated(r) = Some(PaymentMethodNotFound)
            /\ PaymentMethodForeign(r)) =>
           /\ r.response = Some(PaymentMethodNotFound)
           /\ r.response =
                Some(Validate(r.user,
                       [Val(r.body) EXCEPT !.paymentMethodId = Some(UnknownId)],
                       TRUE, TRUE))
      /\ r.transactionId \in TxIds =>
           /\ Row(r.transactionId).sender_id = r.user
           /\ Row(r.transactionId).recipient_id \in DOMAIN RecipientOwner
           /\ RecipientOwner[Row(r.transactionId).recipient_id] = r.user
           /\ Row(r.transactionId).payment_method_id \in DOMAIN PaymentMethodOwner
           /\ PaymentMethodOwner[Row(r.transactionId).payment_method_id] = r.user

\* a request naming a recipient that exists and belongs to another sender
\* got past the first two guards and was answered
C11_Witness ==
  \E s \in CreateSlots : LET r == creates[s] IN
    /\ Answered(r) /\ RecipientForeign(r)
    /\ ~MissingCheck(Val(r.body)) /\ ~AmountCheck(Val(r.body))
    /\ r.response = Some(RecipientNotFound)

\* ------------------------------------------------------------------ C12
ValidationErrors ==
  {MissingFields, AmountOutOfRange, RecipientNotFound, PaymentMethodNotFound}

Rejected(r) == r.response # Null /\ Val(r.response) \in ValidationErrors

\* a rejected request is over: it holds no record id and no quote
C12_Over ==
  \A s \in CreateSlots : LET r == creates[s] IN
    Rejected(r) => r.pc = "done" /\ r.transactionId = 0 /\ r.rateData = Null

\* the rejecting step writes nothing but the response, and the handler takes
\* no step after it
C12_Step ==
  \A s \in CreateSlots :
    /\ (~Rejected(creates[s]) /\ Rejected(creates'[s])) =>
         /\ creates[s].pc = "idle"
         /\ transactions' = transactions /\ pipelines' = pipelines
         /\ cache' = cache
         /\ \A id \in TxIds : pipelines'[id].invoked = pipelines[id].invoked
    /\ Rejected(creates[s]) => creates'[s] = creates[s]

\* C12: a create request answered with missing fields, amount out of range,
\* recipient not found or payment method not found inserts no record, starts
\* no pipeline, calls no adapter and no rate lookup; the error is the answer
\* to that request, in the step that rejects it, and nothing follows it.
C12_RejectedWritesNothing == []C12_Over /\ [][C12_Step]_vars

\* a request that passed every guard but the last was rejected
C12_Witness ==
  \E s \in CreateSlots : LET r == creates[s] IN
    /\ r.response = Some(PaymentMethodNotFound)
    /\ ~RecipientUnowned(r)
    /\ \A id \in TxIds : pipelines[id].pc = "none"

\* ------------------------------------------------------------------ C13
\* the stage a pipeline is waiting on, if any
InProgress(p) ==
  IF p.pc \in {"capture", "settle", "lookup", "payout", "complete"}
    THEN {p.pc} ELSE {}

IsPrefix(a, b) == Len(a) <= Len(b) /\ a = SubSeq(b, 1, Len(a))

\* the stages invoked so far are a prefix of capture, settlement, payout, so
\* each at most once and in that order; every stage but the last invoked has
\* returned successfully, and the last one is the only one that can be running
C13_Ordered ==
  \A id \in TxIds : LET p == pipelines[id] IN
    /\ IsPrefix(AdapterStages(p.invoked), <<"capture", "settle", "payout">>)
    /\ IsPrefix(AdapterStages(p.succeeded), AdapterStages(p.invoked))
    /\ Len(AdapterStages(p.invoked)) <= Len(AdapterStages(p.succeeded)) + 1
    /\ Cardinality(InProgress(p)) <= 1
    /\ \A st \in InProgress(p) : p.invoked # <<>> /\ p.invoked[Len(p.invoked)] = st
    /\ p.error # Null => InProgress(p) = {}

\* a stage is invoked only by the step in which the one before it returned,
\* and a pipeline that stopped (failed, finished or never started by create)
\* invokes nothing again
C13_Step ==
  \A id \in TxIds : LET p == pipelines[id]
                        q == pipelines'[id] IN
    /\ IsPrefix(p.invoked, q.invoked)
    /\ Len(q.invoked) <= Len(p.invoked) + 1
    /\ (q.invoked # p.invoked /\ p.invoked # <<>>) =>
         /\ InProgress(p) = {p.invoked[Len(p.invoked)]}
         /\ q.succeeded = Append(p.succeeded, p.invoked[Len(p.invoked)])
    /\ (p.error # Null \/ Finished(id)) => q.invoked = p.invoked

\* C13: for each transaction the stages capture, settlement, payout are
\* invoked in that order, each only in the step in which the previous one
\* returned successfully, never two in progress at once, each at most once;
\* after an error no stage is invoked again.
C13_StagesInSequence == []C13_Ordered /\ [][C13_Step]_vars

\* a pipeline stopped at a settlement that raised an error, payout never invoked
C13_Witness ==
  \E id \in TxIds : LET p == pipelines[id] IN
    /\ Finished(id)
    /\ AdapterStages(p.invoked) = <<"capture", "settle">>
    /\ AdapterStages(p.succeeded) = <<"capture">>
    /\ Row(id).status = "failed"

\* ------------------------------------------------------------------ C14
\* C14: the amount handed to the payout stage, and the amount_received
\* persisted by the 'completed' write, is the targetAmount that the settlement
\* stage returned for the transaction.
C14_SettledAmountPaid ==
  \A id \in TxIds : LET p == pipelines[id] IN
    /\ p.payoutAmount # Null => p.payoutAmount = p.targetAmount
    /\ Row(id).status = "completed" => Row(id).amount_received = p.targetAmount

\* ------------------------------------------------------------------ C15
C15_Stamped ==
  \A id \in TxIds : LET t == Row(id) IN
    /\ (t.completed_at # Null) <=> (t.status = "completed")
    /\ t.completed_at # Null => Val(t.completed_at) >= t.created_at

C15_Step ==
  /\ \A id \in TxIds :
       transactions'[id].completed_at # Row(id).completed_at =>
         /\ Row(id).completed_at = Null
         /\ Row(id).status = "processing"
         /\ transactions'[id].status = "completed"
         /\ pipelines[id].pc = "complete"
  /\ \A id \in TxIds :
       (Row(id).status # "failed" /\ transactions'[id].status = "failed") =>
         transactions'[id].completed_at = Null
  /\ \A id \in DOMAIN transactions' \ TxIds :
       transactions'[id].completed_at = Null

\* C15: completed_at is null when the record is inserted, is written only by
\* the step that takes the record from 'processing' to 'completed' (so it is
\* non-null exactly when the status is 'completed'), is never earlier than
\* created_at, and is left null by the pipeline's 'failed' write and by
\* cancellation.
C15_CompletedAtOnlyOnCompletion == []C15_Stamped /\ [][C15_Step]_vars

\* one record completed after the clock moved, another one cancelled
C15_Witness ==
  \E id, jd \in TxIds :
    /\ Row(id).status = "completed"
    /\ Val(Row(id).completed_at) > Row(id).created_at
    /\ Row(jd).status = "failed"
    /\ Row(jd).notes = Some(<<"Cancelled by user">>)
    /\ Row(jd).completed_at = Null

\* ------------------------------------------------------------------ C16
C16_Stamps ==
  \A id \in TxIds : LET t == Row(id) IN
    /\ t.status = "completed" => t.completed_at # Null
    /\ t.status = "failed" => t.completed_at = Null

C16_Step ==
  \A id \in TxIds :
    /\ Row(id).completed_at # Null =>
         transactions'[id].completed_at = Row(id).completed_at
    /\ (Row(id).status # "completed" /\ transactions'[id].status = "completed") =>
         transactions'[id].completed_at = Some(now)

\* C16 (as amended): completed_at is set at most once per transaction, in the
\* step in which its status becomes 'completed', to the time of that step,
\* and never changes afterwards; every 'completed' transaction has a non-null
\* completed_at and every 'failed' one, whether failed by the pipeline or
\* cancelled, has it null.
C16_Amended == []C16_Stamps /\ [][C16_Step]_vars

\* C16 (as stated): every transaction whose status is terminal, 'completed'
\* or 'failed', has a non-null completed_at.
C16_Original ==
  \A id \in TxIds : Terminal(Row(id).status) => Row(id).completed_at # Null

\* the pipeline failed a transaction after the clock moved
C16_Witness ==
  \E id \in TxIds :
    /\ pipelines[id].pc = "done" /\ pipelines[id].error # Null
    /\ Row(id).status = "failed"
    /\ Row(id).completed_at = Null
    /\ now > Row(id).created_at

\* ------------------------------------------------------------------ C17
\* the columns fixed when the record is inserted
CreationColumns(t) ==
  [sender_id |-> t.sender_id, recipient_id |-> t.recipient_id,
   payment_method_id |-> t.payment_method_id, amount_sent |-> t.amount_sent,
   currency_sent |-> t.currency_sent, currency_received |-> t.currency_received,
   exchange_rate |-> t.exchange_rate, fee |-> t.fee, route_type |-> t.route_type,
   created_at |-> t.created_at]

\* C17: no step of a pipeline or of a cancel request changes the sender,
\* recipient, payment method, amount sent, currencies, exchange rate, fee,
\* route type or created_at of an existing transaction, and no step removes a
\* transaction; a step that changes a record changes only status,
\* amount_received, xrpl_tx_hash, completed_at and notes.
C17_CreationColumnsFixed ==
  [][/\ Len(transactions') >= Len(transactions)
     /\ \A id \in TxIds :
          CreationColumns(transactions'[id]) = CreationColumns(Row(id))]_vars

\* a record created by a request was completed by its pipeline while another
\* one was cancelled, both still holding what was stored at creation
C17_Witness ==
  \E s \in CreateSlots, c \in CancelSlots : LET r == creates[s] IN
    /\ r.transactionId \in TxIds
    /\ Row(r.transactionId).status = "completed"
    /\ Row(r.transactionId).fee = Some(FeeOf(Val(Val(r.body).amount)))
    /\ Row(r.transactionId).exchange_rate = Some(ExchangeRateOf(Val(r.rateData)))
    /\ cancels[c].response = Some(Cancelled(cancels[c].id))
    /\ CreationColumns(Row(cancels[c].id)) = CreationColumns(StagedRow)

\* ==================================================== ExchangeRateService
\* getRate as the rate routes call it (routes/rates.js), one call per record
\* of calls; index is the call's position in a getBatchRates input, 0 for a
\* call of its own.  outcome, after and alone are history: how the upstream
\* request ended, the calls for the same pair that had returned when this one
\* started, and whether no other call for the pair was waiting for upstream
\* when this one returned.
UpstreamOutcomes == {"success", "error_result", "throw"}
RateQuotes == UpstreamRates \cup {181000}

SamePair(a, b) == a.from = b.from /\ a.to = b.to

\* getRate up to its first await for the k-th call (lines 136-148): a cache
\* hit returns cached.data, a miss sends the upstream request
StartedCall(k, from, to, index) ==
  [from |-> from, to |-> to, index |-> index, startedAt |-> now,
   hit |-> CacheHit(from, to),
   pc |-> IF CacheHit(from, to) THEN "done" ELSE "fetch",
   result |-> IF CacheHit(from, to)
                THEN Some(Val(cache[CacheKey(from, to)]).data) ELSE Null,
   outcome |-> Null,
   after |-> {j \in 1..Len(calls) :
                calls[j].from = from /\ calls[j].to = to /\ calls[j].pc = "done"},
   alone |-> TRUE]

FetchOf(k, c) == [call |-> k, from |-> c.from, to |-> c.to, at |-> now]

\* the upstream requests sent by the calls cs, numbered from first
FetchesOf(cs, first) ==
  LET ids == SelectSeq([i \in 1..Len(cs) |-> i], LAMBDA i : cs[i].pc = "fetch")
  IN [j \in 1..Len(ids) |-> FetchOf(first + ids[j] - 1, cs[ids[j]])]

DirectCalls == {k \in 1..Len(calls) : calls[k].index = 0}

\* a route calls getRate(from, to)
GetRate(from, to) ==
  /\ Cardinality(DirectCalls) < MaxCalls
  /\ LET c == StartedCall(Len(calls) + 1, from, to, 0) IN
       /\ calls' = Append(calls, c)
       /\ fetches' = fetches \o FetchesOf(<<c>>, Len(calls) + 1)
  /\ UNCHANGED <<transactions, creates, pipelines, cancels, cache, now, batch,
                 compare, query>>

\* what getRate returns after the upstream request ended (lines 149-167)
Returned(c, outcome, rate) ==
  IF outcome = "success" THEN UpstreamResult(c.from, c.to, rate)
  ELSE getMockRate(c.from, c.to)

\* Promise.all, one input promise fulfilled, with the values kept in the
\* order the promises were fulfilled
ResolveElementInArrivalOrder(b, index, value) ==
  LET arrived == SelectSeq(b.values, LAMBDA v : v # Null)
      values == [i \in 1..Len(b.values) |->
                   IF i <= Len(arrived) THEN arrived[i]
                   ELSE IF i = Len(arrived) + 1 THEN Some(value) ELSE Null]
  IN IF \A i \in 1..Len(values) : values[i] # Null
       THEN [b EXCEPT !.pc = "done", !.values = values,
                      !.results = Some([i \in 1..Len(values) |-> Val(values[i])])]
       ELSE [b EXCEPT !.values = values]

\* Promise.all, one input promise fulfilled: values[index] = value, and the
\* result array is delivered once no input is outstanding (services/payment.js
\* lines 187-191)
ResolveElement(b, index, value) ==
  LET values == [b.values EXCEPT ![index] = Some(value)]
  IN IF \A i \in 1..Len(values) : values[i] # Null
       THEN [b EXCEPT !.pc = "done", !.values = values,
                      !.results = Some([i \in 1..Len(values) |-> Val(values[i])])]
       ELSE [b EXCEPT !.values = values]

\* the upstream request of call k ended: a success is cached and returned,
\* an error result or a thrown request is answered from getMockRate
GetRateReturned(k, outcome, rate) ==
  /\ k \in 1..Len(calls)
  /\ calls[k].pc = "fetch"
  /\ LET c == calls[k]
         result == Returned(c, outcome, rate) IN
       /\ calls' = [calls EXCEPT ![k] =
            [@ EXCEPT !.pc = "done", !.result = Some(result),
                      !.outcome = Some(outcome),
                      !.alone = \A j \in 1..Len(calls) :
                        (j # k /\ SamePair(calls[j], c)) => calls[j].pc # "fetch"]]
       /\ cache' = IF outcome = "success"
                     THEN [cache EXCEPT ![CacheKey(c.from, c.to)] =
                             Some([data |-> result, timestamp |-> now])]
                     ELSE cache
       /\ batch' = IF c.index = 0 THEN batch
                   ELSE ResolveElement(batch, c.index, result)
  /\ UNCHANGED <<transactions, creates, pipelines, cancels, now, fetches, compare,
                 query>>

RECURSIVE ResolveAll(_, _, _)
\* the inputs of Promise.all that are fulfilled already, taken in input order
ResolveAll(b, cs, i) ==
  IF i > Len(cs) THEN b
  ELSE ResolveAll(IF cs[i].pc = "done" THEN ResolveElement(b, i, Val(cs[i].result))
                  ELSE b, cs, i + 1)

BatchInputs == UNION {[1..n -> Pairs] : n \in 0..MaxBatch}

\* a route calls getBatchRates(pairs): pairs.map starts one getRate per pair,
\* in input order, and Promise.all collects them
GetBatchRates(pairs) ==
  /\ batch.pc = "idle"
  /\ LET n == Len(pairs)
         cs == [i \in 1..n |->
                  StartedCall(Len(calls) + i, pairs[i][1], pairs[i][2], i)]
         started == [pc |-> IF n = 0 THEN "done" ELSE "running", pairs |-> pairs,
                     values |-> [i \in 1..n |-> Null],
                     results |-> IF n = 0 THEN Some(<<>>) ELSE Null] IN
       /\ calls' = calls \o cs
       /\ fetches' = fetches \o FetchesOf(cs, Len(calls) + 1)
       /\ batch' = ResolveAll(started, cs, 1)
  /\ UNCHANGED <<transactions, creates, pipelines, cancels, cache, now, compare,
                 query>>

\* the rate routes alone: getRate and getBatchRates calls, the upstream
\* answering in any order, the clock
NextRates ==
  \/ \E p \in Pairs : GetRate(p[1], p[2])
  \/ \E k \in 1..(MaxCalls + MaxBatch), o \in UpstreamOutcomes, r \in RateQuotes :
       GetRateReturned(k, o, r)
  \/ \E ps \in BatchInputs : GetBatchRates(ps)
  \/ Tick

\* the service just constructed, the transactions table empty
InitRates == Init /\ transactions = <<>>

SpecRates == InitRates /\ [][NextRates]_vars

\* ============================================================ rate claims
\* ------------------------------------------------------------------ C18
CallIds == 1..Len(calls)
Quote(k) == Val(calls[k].result)

\* the upstream requests that call k sent
FetchesBy(k) == {f \in 1..Len(fetches) : fetches[f].call = k}

\* call j, which asked upstream and got a quote, had returned before call k
\* for the same pair started, no other call for the pair still waiting, and
\* k started less than cacheExpiry after the quote was stamped
FollowsFresh(j, k) ==
  /\ j \in calls[k].after
  /\ FetchesBy(j) # {} /\ ~Quote(j).mock /\ calls[j].alone
  /\ calls[k].startedAt - Quote(j).timestamp < cacheExpiry

C18_Cached ==
  /\ \A k \in CallIds : calls[k].hit =>
       /\ calls[k].pc = "done" /\ FetchesBy(k) = {}
       /\ ~Quote(k).mock
       /\ calls[k].startedAt - Quote(k).timestamp < cacheExpiry
       /\ \E j \in 1..(k - 1) :
            /\ SamePair(calls[j], calls[k]) /\ FetchesBy(j) # {}
            /\ calls[j].result = calls[k].result
  /\ \A k \in CallIds : ~calls[k].hit =>
       /\ Cardinality(FetchesBy(k)) = 1
       /\ calls[k].pc = "done" => Quote(k).timestamp >= calls[k].startedAt
  /\ \A j, k \in CallIds : FollowsFresh(j, k) =>
       calls[k].hit /\ Quote(k).rate = Quote(j).rate
  /\ \A p \in Pairs : cache[p] # Null =>
       /\ ~Val(cache[p]).data.mock
       /\ \E k \in CallIds : calls[k].result = Some(Val(cache[p]).data)

\* a call that starts on a fresh cache entry is a hit, and every miss sends
\* one upstream request
C18_Step ==
  /\ \A k \in (1..Len(calls')) \ CallIds :
       calls'[k].hit <=> CacheHit(calls'[k].from, calls'[k].to)
  /\ Len(fetches') - Len(fetches) =
       Cardinality({k \in (1..Len(calls')) \ CallIds : ~calls'[k].hit})

\* C18 (as amended): a getRate call that starts while the cache holds a quote
\* for its ordered pair stamped less than 60 s earlier returns that quote,
\* the one an earlier call got from upstream, and sends no upstream request;
\* so when a call returned an upstream quote with no other call for the pair
\* still waiting, a second call for the pair started within 60 s of that
\* quote returns the identical rate without consulting upstream.  Only
\* upstream quotes are cached, never a fallback.  Every other call sends
\* exactly one upstream request, so a cached quote aged 60 s or more is never
\* returned.
C18_Amended == []C18_Cached /\ [][C18_Step]_vars

\* C18 (as stated): of two getRate calls for the same ordered pair, the
\* second started less than 60 s after the first, the second sends no
\* upstream request and returns the rate the first returned.
C18_Original ==
  \A j, k \in CallIds :
    (/\ j < k /\ SamePair(calls[j], calls[k])
     /\ calls[k].startedAt - calls[j].startedAt < cacheExpiry) =>
      /\ FetchesBy(k) = {}
      /\ (calls[j].pc = "done" /\ calls[k].pc = "done") =>
           Quote(k).rate = Quote(j).rate

\* a second call, started later but inside the window of an upstream quote,
\* was answered from the cache
C18_Witness ==
  \E j, k \in CallIds :
    /\ FollowsFresh(j, k)
    /\ calls[k].startedAt > calls[j].startedAt
    /\ calls[k].hit /\ calls[k].result = calls[j].result

\* ------------------------------------------------------------------ C19
\* every call is waiting for upstream or has returned a quote for its pair
C19_Returns ==
  \A k \in CallIds :
    /\ calls[k].pc \in {"fetch", "done"}
    /\ calls[k].pc = "done" =>
         /\ calls[k].result # Null
         /\ Quote(k).from = calls[k].from /\ Quote(k).to = calls[k].to
         /\ Quote(k).rate > 0

\* a result is flagged mock exactly when the call's upstream request threw or
\* returned a non-success result
C19_Flagged ==
  \A k \in CallIds : calls[k].pc = "done" =>
    (Quote(k).mock <=>
       (calls[k].outcome # Null /\ Val(calls[k].outcome) # "success"))

\* getBatchRates returns one result per input pair, in input order
C19_Batch ==
  batch.pc = "done" =>
    /\ Len(Val(batch.results)) = Len(batch.pairs)
    /\ \A i \in 1..Len(batch.pairs) : LET r == Val(batch.results)[i] IN
         /\ r.from = batch.pairs[i][1] /\ r.to = batch.pairs[i][2]
         /\ \E k \in CallIds : calls[k].index = i /\ calls[k].result = Some(r)

\* C19 (as amended): getRate always returns a quote; when the upstream request
\* throws or returns a non-success result the quote is flagged mock: true and
\* its rate is the static table's entry for the ordered pair, or 1.0 when the
\* table has no entry for that pair; a quote from upstream or from the cache
\* is never flagged mock; getBatchRates returns one result per input pair, in
\* input order, whatever the order in which the lookups finish.
C19_Amended ==
  /\ C19_Returns /\ C19_Flagged /\ C19_Batch
  /\ \A k \in CallIds : (calls[k].pc = "done" /\ Quote(k).mock) =>
       Quote(k).rate =
         IF CacheKey(calls[k].from, calls[k].to) \in DOMAIN mockRates
           THEN mockRates[CacheKey(calls[k].from, calls[k].to)]
           ELSE DefaultMockRate

\* C19 (as stated): ..., the fallback quote's rate is taken from the static
\* table keyed by the ordered pair, ...
C19_Original ==
  /\ C19_Returns /\ C19_Flagged /\ C19_Batch
  /\ \A k \in CallIds : (calls[k].pc = "done" /\ Quote(k).mock) =>
       /\ CacheKey(calls[k].from, calls[k].to) \in DOMAIN mockRates
       /\ Quote(k).rate = mockRates[CacheKey(calls[k].from, calls[k].to)]

\* a batch of two different pairs returned, its second lookup having
\* finished before its first, one from upstream and one from the fallback
C19_Witness ==
  /\ batch.pc = "done" /\ Len(batch.pairs) = 2
  /\ batch.pairs[1] # batch.pairs[2]
  /\ Val(batch.results)[2].timestamp < Val(batch.results)[1].timestamp
  /\ Val(batch.results)[1].mock /\ ~Val(batch.results)[2].mock

\* ==================================================== POST /compare-routes
\* Amounts in cents, intermediate products in 1/100 cent.  A toFixed(2)
\* string is its sign, its whole part and its two decimals.
Abs(x) == IF x < 0 THEN -x ELSE x

\* x.toFixed(2), x in 1/100 cent
toFixed2(x) ==
  LET c == (Abs(x) + 50) \div 100
  IN [neg |-> x < 0, whole |-> c \div 100, frac |-> c % 100]

\* parseFloat of a toFixed(2) string, in cents
parseFloat(s) == (IF s.neg THEN -1 ELSE 1) * (s.whole * 100 + s.frac)

CompareMinAmount == 1000

CompareError(message) ==
  [code |-> 400, error |-> message, routes |-> <<>>, midMarketRate |-> Null]
CompareMissing ==
  CompareError("Missing required fields: amount, fromCurrency, toCurrency")
CompareMinimum == CompareError("Minimum transfer amount is $10")
Compared(routes, rate) ==
  [code |-> 200, error |-> "", routes |-> routes, midMarketRate |-> Some(rate)]

\* one element of the routes array (lines 35-71): fee in 1/100 cent, markup in
\* 1/1000 applied to the mid-market rate; savings is 0 until computed
Route(type, amount, fee, markup, rate, recommended) ==
  [type |-> type, amountSent |-> amount, fee |-> fee,
   exchangeRate |-> MulDiv(rate, markup, 1000),
   amountReceived |->
     toFixed2(MulDiv(MulDiv(amount * 100 - fee, rate, 10000), markup, 1000)),
   savings |-> toFixed2(0), recommended |-> recommended]

\* Routes with the 0.3% spread of the direct route left out
RoutesNoSpread(amount, rate) ==
  << Route("xrpl_direct", amount, amount, 1000, rate, TRUE),
     Route("bank_transfer", amount, amount * 5 + 50000, 970, rate, FALSE),
     Route("competitor", amount, (amount * 15) \div 10 + 30000, 990, rate, FALSE) >>

\* the routes array as built, before savings and sort (lines 34-72)
Routes(amount, rate) ==
  << Route("xrpl_direct", amount, amount, 997, rate, TRUE),
     Route("bank_transfer", amount, amount * 5 + 50000, 970, rate, FALSE),
     Route("competitor", amount, (amount * 15) \div 10 + 30000, 990, rate, FALSE) >>

\* savings against routes[1] of the code, the bank transfer (lines 74-80;
\* savingsPercent is left out)
WithSavings(routes) ==
  LET traditionalAmount == parseFloat(routes[2].amountReceived) IN
    [i \in 1..Len(routes) |->
       [routes[i] EXCEPT !.savings =
          toFixed2((parseFloat(routes[i].amountReceived) - traditionalAmount) * 100)]]

\* CompareFn sorting the worst route first
CompareFnAscending(a, b) ==
  parseFloat(a.amountReceived) - parseFloat(b.amountReceived)

\* the comparator given to routes.sort (line 83): negative puts a before b
CompareFn(a, b) == parseFloat(b.amountReceived) - parseFloat(a.amountReceived)

RECURSIVE InsertRoute(_, _)
\* r put behind every element that need not come after it
InsertRoute(sorted, r) ==
  IF sorted = <<>> THEN <<r>>
  ELSE IF CompareFn(Head(sorted), r) <= 0
    THEN <<Head(sorted)>> \o InsertRoute(Tail(sorted), r)
  ELSE <<r>> \o sorted

RECURSIVE SortRoutes(_)
\* Array.prototype.sort, which is stable
SortRoutes(routes) ==
  IF routes = <<>> THEN <<>>
  ELSE InsertRoute(SortRoutes(SubSeq(routes, 1, Len(routes) - 1)),
                   routes[Len(routes)])

\* the guard on the request body (line 18)
CompareMissingCheck(body) ==
  FalsyNum(body.amount) \/ FalsyStr(body.fromCurrency) \/ FalsyStr(body.toCurrency)

\* the whole handler; rate is rateData.rate of the getRate call (lines 13-98)
CompareRoutes(body, rate) ==
  /\ compare.pc = "idle"
  /\ compare' =
       IF CompareMissingCheck(body)
         THEN [pc |-> "done", body |-> Some(body), rate |-> Null,
               response |-> Some(CompareMissing)]
       ELSE IF Val(body.amount) < CompareMinAmount
         THEN [pc |-> "done", body |-> Some(body), rate |-> Null,
               response |-> Some(CompareMinimum)]
       ELSE [pc |-> "done", body |-> Some(body), rate |-> Some(rate),
             response |->
               Some(Compared(SortRoutes(WithSavings(Routes(Val(body.amount), rate))),
                             rate))]
  /\ UNCHANGED <<transactions, creates, pipelines, cancels, cache, now, calls,
                 fetches, batch, query>>

\* requests: the amount absent, negative, zero, on both sides of the minimum
\* and up to $10,000; each currency absent, empty or given, the source
\* currency also as a two-letter string
CompareBodies ==
  [amount : {Null} \cup {Some(a) : a \in {-500, 0, 1, 999, 1000, 1001, 1500, 2500, 9900,
                                          10000, 12345, 50000, 100000, 250000,
                                          999999, 1000000}},
   fromCurrency : {Null, Some(""), Some("US"), Some("USD")},
   toCurrency : {Null, Some("MXN")}]

\* mid-market rates from 0.0001 to 20
CompareRates == {1, 500, 9999, 10000, 175000, 180000, 200000}

NextRoutes == \E b \in CompareBodies, r \in CompareRates : CompareRoutes(b, r)

SpecRoutes == InitRates /\ [][NextRoutes]_vars

\* ===================================================== compare-routes claims
\* ------------------------------------------------------------------ C20
CompareAnswer == Val(compare.response)
Received(r) == parseFloat(r.amountReceived)

\* the request carries an amount of at least $10 and both currencies
CompareValid ==
  /\ compare.pc = "done"
  /\ ~FalsyStr(Val(compare.body).fromCurrency)
  /\ ~FalsyStr(Val(compare.body).toCurrency)
  /\ Val(compare.body).amount # Null
  /\ Val(Val(compare.body).amount) >= CompareMinAmount

\* C20: for every amount of at least 10 and every mid-market rate above 0,
\* compare-routes answers with three routes, one of each type, in order of
\* non-increasing amount received; exactly one is recommended, the
\* xrpl_direct one; each route's savings is its amount received minus the
\* bank_transfer route's, so the bank_transfer route's savings is 0.
C20_RoutesRanked ==
  CompareValid =>
    LET routes == CompareAnswer.routes IN
      /\ CompareAnswer.code = 200 /\ Val(compare.rate) > 0
      /\ Len(routes) = 3
      /\ {routes[i].type : i \in 1..3} = {"xrpl_direct", "bank_transfer", "competitor"}
      /\ \A i, j \in 1..3 : i < j => Received(routes[i]) >= Received(routes[j])
      /\ \A i \in 1..3 : routes[i].recommended <=> routes[i].type = "xrpl_direct"
      /\ Cardinality({i \in 1..3 : routes[i].recommended}) = 1
      /\ \A i, j \in 1..3 : routes[j].type = "bank_transfer" =>
           /\ parseFloat(routes[i].savings) = Received(routes[i]) - Received(routes[j])
           /\ routes[i].savings = toFixed2(100 * (Received(routes[i]) - Received(routes[j])))
           /\ routes[j].savings = toFixed2(0)

\* $100 at 17.5: the bank transfer, second when the array is built, is last
\* in the answer and the two other routes show what they save against it
C20_Witness ==
  /\ CompareValid
  /\ Val(compare.body).amount = Some(10000) /\ compare.rate = Some(175000)
  /\ CompareAnswer.routes[1].type = "xrpl_direct"
  /\ CompareAnswer.routes[3].type = "bank_transfer"
  /\ Received(CompareAnswer.routes[1]) > Received(CompareAnswer.routes[2])
  /\ Received(CompareAnswer.routes[2]) > Received(CompareAnswer.routes[3])
  /\ parseFloat(CompareAnswer.routes[2].savings) > 0

\* ------------------------------------------------------------------ C21
\* the request of the scenario: 100 USD to MXN at a mid-market rate of 17.5
Scenario100 ==
  /\ compare.pc = "done"
  /\ compare.body = Some([amount |-> Some(10000), fromCurrency |-> Some("USD"),
                          toCurrency |-> Some("MXN")])
  /\ compare.rate = Some(175000)

\* the xrpl_direct route of the answer
DirectRoute ==
  LET routes == CompareAnswer.routes
  IN routes[CHOOSE i \in 1..Len(routes) : routes[i].type = "xrpl_direct"]

\* fee 1.00 (in 1/100 cent) and effective rate 17.4475
C21_FeeAndRate ==
  /\ CompareAnswer.code = 200
  /\ DirectRoute.fee = 10000
  /\ DirectRoute.exchangeRate = 174475
  /\ CompareAnswer.midMarketRate = Some(175000)

\* C21 (as amended): for amount 100, USD to MXN, mid-market rate 17.5, the
\* xrpl_direct route has fee 1.00, effective exchange rate 17.4475 and amount
\* received (100 - 1) x 17.4475 = 1727.30, a string with two decimals.
C21_Amended ==
  Scenario100 =>
    /\ C21_FeeAndRate
    /\ DirectRoute.amountReceived = [neg |-> FALSE, whole |-> 1727, frac |-> 30]

\* C21 (as stated): ... and amount received 1728.31.
C21_Original ==
  Scenario100 =>
    /\ C21_FeeAndRate
    /\ DirectRoute.amountReceived = [neg |-> FALSE, whole |-> 1728, frac |-> 31]

\* the scenario's request was answered with its three routes
C21_Witness ==
  /\ Scenario100
  /\ Len(CompareAnswer.routes) = 3
  /\ DirectRoute.recommended

\* ------------------------------------------------------------------ C22
\* three-letter currency codes
CurrencyCodes == {"USD", "MXN"}

\* the field is given and is not a currency code
Malformed(f) == ~FalsyStr(f) /\ Val(f) \notin CurrencyCodes

\* answered 400, with no rate looked up and no routes
RefusedUnquoted ==
  /\ CompareAnswer.code = 400
  /\ compare.rate = Null
  /\ CompareAnswer.routes = <<>>

\* C22: compare-routes rejects an amount that is below 10 or not positive with
\* the invalid-amount error, and a malformed currency code with an
\* invalid-currency error; in both cases no rate is looked up and no route is
\* returned.
C22_InvalidRejected ==
  compare.pc = "done" =>
    LET b == Val(compare.body) IN
      /\ (/\ b.amount # Null /\ Val(b.amount) < CompareMinAmount
          /\ b.fromCurrency \in {Some(c) : c \in CurrencyCodes}
          /\ b.toCurrency \in {Some(c) : c \in CurrencyCodes}) =>
           compare.response = Some(CompareMinimum) /\ RefusedUnquoted
      /\ (Malformed(b.fromCurrency) \/ Malformed(b.toCurrency)) =>
           /\ RefusedUnquoted
           /\ (b.amount # Null /\ Val(b.amount) >= CompareMinAmount) =>
                compare.response \notin {Some(CompareMinimum), Some(CompareMissing)}

\* ========================================================= GET /:id/status
StatusNotFound ==
  [code |-> 404, error |-> "Transaction not found or does not belong to you",
   transaction |-> Null]
StatusFailed ==
  [code |-> 500, error |-> "Failed to fetch transaction status", transaction |-> Null]

\* StatusRows without the sender_id condition
StatusRowsAnySender(id, user) == IF id \in TxIds THEN {id} ELSE {}

\* SELECT t.*, ... FROM transactions t ... WHERE t.id = $1 AND t.sender_id = $2
\* (lines 308-323)
StatusRows(id, user) ==
  IF id \in TxIds /\ transactions[id].sender_id = user THEN {id} ELSE {}

\* the response object built from the row and its recipient (lines 333-373)
Projection(id) ==
  LET t == transactions[id] IN
    [id |-> id, status |-> t.status, amountSent |-> t.amount_sent,
     currencySent |-> t.currency_sent, amountReceived |-> t.amount_received,
     currencyReceived |-> t.currency_received, fee |-> t.fee,
     exchangeRate |-> t.exchange_rate,
     recipient |-> [id |-> t.recipient_id,
                    payoutType |-> RecipientPayoutType[t.recipient_id]],
     paymentMethod |-> [id |-> t.payment_method_id],
     xrplTxHash |-> t.xrpl_tx_hash, routeType |-> t.route_type,
     createdAt |-> t.created_at, completedAt |-> t.completed_at, notes |-> t.notes]

StatusFound(id) == [code |-> 200, error |-> "", transaction |-> Some(Projection(id))]

\* what the handler answers; ok: whether the SELECT resolves (lines 303-386)
StatusAnswer(user, id, ok) ==
  IF ~ok THEN StatusFailed
  ELSE IF StatusRows(id, user) = {} THEN StatusNotFound
  ELSE StatusFound(id)

\* the whole handler: one SELECT, then the response
StatusQuery(user, id, ok) ==
  /\ query.pc = "idle"
  /\ id \in 1..(Len(transactions) + 1)
  /\ query' = [pc |-> "done", user |-> user, id |-> id,
               response |-> Some(StatusAnswer(user, id, ok))]
  /\ UNCHANGED <<transactions, creates, pipelines, cancels, cache, now, calls,
                 fetches, batch, compare>>

\* status and cancel requests, by either user, on a staged record and on ids
\* that no record has
NextLookup ==
  \/ \E u \in Users, id \in RowIds \cup {Max(RowIds) + 1}, ok \in BOOLEAN :
       StatusQuery(u, id, ok)
  \/ \E c \in CancelSlots, u \in Users, id \in RowIds \cup {Max(RowIds) + 1},
        ok \in BOOLEAN : CancelSelect(c, u, id, ok)
  \/ \E c \in CancelSlots, ok \in BOOLEAN : CancelUpdate(c, ok)

SpecLookup == Init /\ [][NextLookup]_vars

\* ========================================================== lookup claims
\* ------------------------------------------------------------------ C23
\* no record has the id, or its sender is not the user
NotOwned(user, id) == id \notin TxIds \/ Row(id).sender_id # user

\* an id that no record has
UnknownTxId == Len(transactions) + 1

C23_Hidden ==
  /\ (query.pc = "done" /\ query.response # Some(StatusFailed)
        /\ NotOwned(query.user, query.id)) =>
       /\ query.response = Some(StatusNotFound)
       /\ Val(query.response).code = 404
       /\ Val(query.response).transaction = Null
       /\ query.response = Some(StatusAnswer(query.user, UnknownTxId, TRUE))
  /\ \A c \in CancelSlots : LET r == cancels[c] IN
       (r.pc # "idle" /\ r.response # Some(CancelFailed)
          /\ NotOwned(r.user, r.id)) =>
         /\ r.pc = "done"
         /\ r.response = Some(CancelNotFound)
         /\ Val(r.response).code = 404
         /\ r.status = Null /\ Val(r.response).status = Null

\* a record changes only in the UPDATE of a cancel request of its sender
C23_Step ==
  \A id \in TxIds :
    transactions'[id] # Row(id) =>
      \E c \in CancelSlots :
        /\ cancels[c].pc = "update" /\ cancels[c].id = id
        /\ cancels[c].user = Row(id).sender_id

\* C23: a status query or a cancel request for an id that no record has, or
\* whose record has another sender, is answered 404 with no field of the
\* record and changes no record; the answer to a caller who is not the sender
\* is the one the same caller gets for an id that no record has.
C23_NotOwnedNotFound == []C23_Hidden /\ [][C23_Step]_vars

\* user 2 asked for the status of user 1's record and tried to cancel it; the
\* record is as it was staged
C23_Witness ==
  \E c \in CancelSlots :
    /\ query.pc = "done" /\ query.id \in TxIds
    /\ Row(query.id).sender_id # query.user
    /\ query.response = Some(StatusNotFound)
    /\ cancels[c].id = query.id /\ cancels[c].user = query.user
    /\ cancels[c].response = Some(CancelNotFound)
    /\ Row(query.id) = StagedRow

\* ------------------------------------------------------------------ C24
\* the records inserted by create requests
Created == {creates[s].transactionId : s \in CreateSlots} \cap TxIds

C24_NeverPending ==
  /\ \A id \in Created : Row(id).status # "pending"
  /\ \A c \in CancelSlots : LET r == cancels[c] IN
       r.id \in Created =>
         /\ r.pc # "update"
         /\ r.response # Some(Cancelled(r.id))
         /\ r.status # Some("pending")

\* the sender's cancel request on a record of create is refused with the
\* status it found; cancel writes no record of create, only the record's own
\* pipeline does, and no cancel request moves in that step
C24_Step ==
  /\ \A c \in CancelSlots : LET r == cancels'[c] IN
       (/\ cancels[c].pc = "idle" /\ r.pc # "idle"
        /\ r.id \in Created /\ Row(r.id).sender_id = r.user
        /\ r.response # Some(CancelFailed)) =>
         /\ r.pc = "done"
         /\ Val(r.response).code = 400
         /\ r.response = Some(CannotCancel(Row(r.id).status))
         /\ Row(r.id).status \in {"processing", "completed", "failed"}
         /\ transactions' = transactions /\ pipelines' = pipelines
  /\ \A id \in Created :
       transactions'[id] # Row(id) =>
         /\ pipelines[id].pc \in {"complete", "catch"}
         /\ pipelines'[id].pc = "done"
         /\ cancels' = cancels

\* C24: a record inserted by create is never in status 'pending'; under every
\* interleaving of create, pipeline steps and cancel requests, the sender's
\* cancel request on such a record is refused with 400 'Cannot cancel
\* transaction with status ...', and only the record's own pipeline ever
\* writes it.
C24_CreatedNotCancellable == []C24_NeverPending /\ [][C24_Step]_vars

\* the sender tried to cancel a record while its pipeline was running, and
\* the pipeline went on to complete it
C24_Witness ==
  \E c \in CancelSlots : LET r == cancels[c] IN
    /\ r.id \in Created
    /\ r.response = Some(CannotCancel("processing"))
    /\ Row(r.id).status = "completed"

\* ------------------------------------------------------------------ C25
\* the calls a pipeline makes: the three adapters, the recipient SELECT and
\* the 'completed' UPDATE; there is no refund or reversal among them
PipelineCalls == {"capture", "settle", "lookup", "payout", "complete"}

\* the pipeline of id ended on an error raised after capture had succeeded
FailedAfterCapture(id) ==
  /\ Finished(id) /\ pipelines[id].error # Null
  /\ "capture" \in {pipelines[id].succeeded[i] :
                      i \in 1..Len(pipelines[id].succeeded)}

\* C25: when a pipeline ends on an error raised after payment capture
\* succeeded (in settlement, the recipient lookup, payout or the 'completed'
\* UPDATE), the record is 'failed', the stages that succeeded stay as they
\* are and the pipeline made no call other than its stages: no refund, no
\* reversal.
C25_NoCompensation ==
  \A id \in TxIds : FailedAfterCapture(id) =>
    /\ Row(id).status = "failed"
    /\ \A i \in 1..Len(pipelines[id].invoked) :
         pipelines[id].invoked[i] \in PipelineCalls
    /\ Len(pipelines[id].invoked) = Len(pipelines[id].succeeded) + 1
    /\ AdapterStages(pipelines[id].invoked)
         = SubSeq(<<"capture", "settle", "payout">>, 1,
                  Len(AdapterStages(pipelines[id].invoked)))

====
